---- MODULE Spec2Model ----
(***************************************************************************)
(* A model of app.py, the DAG visualisation and editing page.              *)
(*                                                                         *)
(* One run of main() reads the uploaded JSON file, maps its                *)
(* unit_operations and streams to flow nodes and flow edges, hands them to *)
(* the flow component, applies a submitted node edit to the state the      *)
(* component returns, and builds updated_dag, the file offered for         *)
(* download.                                                               *)
(*                                                                         *)
(* Representation.  A Python dict is a function whose DOMAIN is its key    *)
(* set (a record); d.get(k, default) is Get.  A dict whose insertion order *)
(* matters (unit_operations, streams) is a sequence of [key, val] entries  *)
(* with distinct keys.  A text the code takes apart (a stream list, the    *)
(* parameters JSON) is a sequence of characters or of JSON tokens; the     *)
(* value of parameters is its token sequence without white space.  order,  *)
(* which the code only copies, is its JSON literal.  A node position is    *)
(* kept in halves (a coordinate of 1.5 is 3) so that int() is visible.     *)
(***************************************************************************)
EXTENDS Integers, Sequences, FiniteSets, TLC

VARIABLES
    pc,         \* "idle": no graph shown; "loaded": the page shows a graph;
                \* "crashed": the run ended in an uncaught exception
    dag_data,   \* what json.load returned for the uploaded file
    new_state,  \* [nodes, edges, selected_id]: the state of the flow component
    messages,   \* the st.warning / st.error messages of the last run
    form,       \* the node_edit_form submitted in the last run, if any
    op,         \* [name, id]: the operation that caused the last run (history)
    prior,      \* the graph whose download was uploaded again (history)
    ops         \* number of user operations since the upload

vars == <<pc, dag_data, new_state, messages, form, op, prior, ops>>

(***************************************************************************)
(* Bounds of the model.                                                    *)
(***************************************************************************)
MaxNodes == 2       \* unit operations per uploaded file
MaxEdges == 2       \* streams per uploaded file
MaxEditEdges == 1   \* streams per uploaded file when edits follow
MaxOps == 2         \* user operations after an upload

(***************************************************************************)
(* Python helpers.                                                         *)
(***************************************************************************)
Get(d, k, dflt) == IF k \in DOMAIN d THEN d[k] ELSE dflt

Values(dict) == [i \in 1..Len(dict) |-> dict[i].val]

Keys(dict) == {dict[i].key : i \in 1..Len(dict)}

\* d[k] = v on an insertion-ordered dict: an existing key keeps its place.
DictSet(dict, k, v) ==
    IF k \in Keys(dict)
    THEN [i \in 1..Len(dict) |->
            IF dict[i].key = k THEN [key |-> k, val |-> v] ELSE dict[i]]
    ELSE Append(dict, [key |-> k, val |-> v])

\* d[k] = v on a plain dict.
Updated(d, k, v) == [x \in DOMAIN d \cup {k} |-> IF x = k THEN v ELSE d[x]]

SeqUpTo(S, n) == UNION {[1..k -> S] : k \in 0..n}

Range(s) == {s[i] : i \in 1..Len(s)}

\* {} as a parameters value.
EmptyObject == <<"{", "}">>

\* int(): truncation toward zero of a coordinate kept in halves.
IntCoerce(h) == IF h >= 0 THEN h \div 2 ELSE -((-h) \div 2)

(***************************************************************************)
(* Loading: lines 53-134.                                                  *)
(***************************************************************************)
\* any(edge[key] == node_id for edge in edges_data.values()): the generator
\* stops at the first match; edge[key] raises KeyError on a record without
\* that key.
RECURSIVE AnyEdge(_, _, _, _)
AnyEdge(edge_vals, key, node_id, i) ==
    IF i > Len(edge_vals) THEN "False"
    ELSE IF key \notin DOMAIN edge_vals[i] THEN "KeyError"
    ELSE IF edge_vals[i][key] = node_id THEN "True"
    ELSE AnyEdge(edge_vals, key, node_id, i + 1)

\* Determine node type, lines 73-80: the second test overrides the first.
NodeType(node_id, edge_vals) ==
    LET incoming == AnyEdge(edge_vals, "target", node_id, 1)
        outgoing == AnyEdge(edge_vals, "source", node_id, 1)
    IN  IF incoming = "KeyError" THEN "KeyError"
        ELSE IF outgoing = "KeyError" THEN "KeyError"
        ELSE IF outgoing = "False" THEN "output"
        ELSE IF incoming = "False" THEN "input"
        ELSE "default"

\* node_data_dict, lines 87-96.
NodeDataDict(node) ==
    [content             |-> Get(node, "name", ""),
     description         |-> Get(node, "description", ""),
     unit_operation_type |-> Get(node, "unit_operation_type", ""),
     order               |-> Get(node, "order", "null"),
     input_streams       |-> Get(node, "input_streams", <<>>),
     output_streams      |-> Get(node, "output_streams", <<>>),
     parameters          |-> Get(node, "parameters", EmptyObject),
     additional_info     |-> Get(node, "additional_info", "")]

\* StreamlitFlowNode(...), lines 98-106: pos=(0, 0) whatever the file says.
StNode(node, edge_vals) ==
    [id        |-> Get(node, "unit_operation_id", ""),
     position  |-> [x |-> 0, y |-> 0],
     data      |-> NodeDataDict(node),
     node_type |-> NodeType(Get(node, "unit_operation_id", ""), edge_vals)]

\* Collect node IDs for validation, lines 58-63.
NodeIds(node_vals) ==
    {Get(node_vals[i], "unit_operation_id", "") : i \in 1..Len(node_vals)} \ {""}

\* Map nodes to StreamlitFlowNodes, lines 65-107: a record without an id is
\* skipped, silently.
HasId(node) == Get(node, "unit_operation_id", "") # ""

MapNodes(node_vals, edge_vals) ==
    LET kept == SelectSeq(node_vals, HasId)
    IN  [i \in 1..Len(kept) |-> StNode(kept[i], edge_vals)]

\* The node loop raises when the type of some kept node cannot be computed.
LoadRaises(node_vals, edge_vals) ==
    \E i \in 1..Len(node_vals) :
        /\ HasId(node_vals[i])
        /\ NodeType(Get(node_vals[i], "unit_operation_id", ""), edge_vals) = "KeyError"

EdgeKnownSourceOnly(edge, node_ids) == Get(edge, "source", "") \in node_ids

\* The negation of the test of line 119.
EdgeKnown(edge, node_ids) ==
    ~ (Get(edge, "source", "") \notin node_ids \/ Get(edge, "target", "") \notin node_ids)

\* StreamlitFlowEdge(...), lines 112-130.
StEdge(edge) ==
    [id       |-> Get(edge, "stream_id", ""),
     source   |-> Get(edge, "source", ""),
     target   |-> Get(edge, "target", ""),
     label    |-> Get(edge, "name", ""),
     animated |-> (Get(edge, "stream_type", "") = "core")]

\* Map edges to StreamlitFlowEdges, lines 109-131.
MapEdges(edge_vals, node_ids) ==
    LET kept == SelectSeq(edge_vals, LAMBDA e : EdgeKnown(e, node_ids))
    IN  [i \in 1..Len(kept) |-> StEdge(kept[i])]

\* st.warning(...), line 120: one message per dropped edge, in file order.
Warning(edge) ==
    [kind      |-> "warning",
     stream_id |-> Get(edge, "stream_id", ""),
     source    |-> Get(edge, "source", ""),
     target    |-> Get(edge, "target", "")]

LoadWarnings(edge_vals, node_ids) ==
    LET dropped == SelectSeq(edge_vals, LAMBDA e : ~ EdgeKnown(e, node_ids))
    IN  [i \in 1..Len(dropped) |-> Warning(dropped[i])]

\* nodes_data and edges_data, lines 55-56: only these two keys are read.
NodesData(data) == Values(Get(data, "unit_operations", <<>>))
EdgesData(data) == Values(Get(data, "streams", <<>>))

\* initial_state, line 134.
InitialState(data) ==
    [nodes       |-> MapNodes(NodesData(data), EdgesData(data)),
     edges       |-> MapEdges(EdgesData(data), NodeIds(NodesData(data))),
     selected_id |-> ""]

EmptyState == [nodes |-> <<>>, edges |-> <<>>, selected_id |-> ""]

(***************************************************************************)
(* Export: lines 214-248.                                                  *)
(***************************************************************************)
\* One entry of updated_dag["unit_operations"], lines 223-238.
NodeRecord(node) ==
    [unit_operation_id   |-> node.id,
     name                |-> Get(node.data, "content", ""),
     description         |-> Get(node.data, "description", ""),
     unit_operation_type |-> Get(node.data, "unit_operation_type", ""),
     order               |-> Get(node.data, "order", "0"),
     input_streams       |-> Get(node.data, "input_streams", <<>>),
     output_streams      |-> Get(node.data, "output_streams", <<>>),
     parameters          |-> Get(node.data, "parameters", EmptyObject),
     additional_info     |-> Get(node.data, "additional_info", ""),
     position            |-> [x |-> IntCoerce(Get(node.position, "x", 0)),
                              y |-> IntCoerce(Get(node.position, "y", 0))]]

\* One entry of updated_dag["streams"], lines 242-248.
StreamRecord(edge) ==
    [stream_id   |-> edge.id,
     source      |-> edge.source,
     target      |-> edge.target,
     name        |-> edge.label,
     stream_type |-> IF edge.animated THEN "core" ELSE "other"]

RECURSIVE UnitOperations(_, _)
UnitOperations(nodes, i) ==
    IF i = 0 THEN <<>>
    ELSE DictSet(UnitOperations(nodes, i - 1), nodes[i].id, NodeRecord(nodes[i]))

RECURSIVE Streams(_, _)
Streams(edges, i) ==
    IF i = 0 THEN <<>>
    ELSE DictSet(Streams(edges, i - 1), edges[i].id, StreamRecord(edges[i]))

UpdatedDag(state) ==
    [unit_operations |-> UnitOperations(state.nodes, Len(state.nodes)),
     streams         |-> Streams(state.edges, Len(state.edges))]

\* The file the page offers for download in the current state.
updated_dag == UpdatedDag(new_state)

(***************************************************************************)
(* Uploaded files.                                                         *)
(***************************************************************************)
S1 == <<"s", "1">>
S2 == <<"s", "2">>

FullNode(id) ==
    [unit_operation_id   |-> id,
     name                |-> "mixer",
     description         |-> "d",
     unit_operation_type |-> "t",
     order               |-> "1",
     input_streams       |-> <<S1>>,
     output_streams      |-> <<S2>>,
     parameters          |-> <<"{", "\"a\"", ":", "1", "}">>,
     additional_info     |-> "i",
     position            |-> [x |-> 5, y |-> 7]]

NodeRecs ==
    {FullNode("A"), [unit_operation_id |-> "A"], [unit_operation_id |-> "B"],
     [unit_operation_id |-> ""], [name |-> "mixer"]}

Endpoints == {"A", "B", "X"}

EdgeRecs ==
    {[stream_id |-> "E1", source |-> s, target |-> t, name |-> "feed",
      stream_type |-> st] : s \in Endpoints, t \in Endpoints, st \in {"core", "gas"}}
    \cup {[stream_id |-> "E2", source |-> s, target |-> t] :
            s \in Endpoints, t \in Endpoints}
    \cup {[stream_id |-> "E1", source |-> "A"], [stream_id |-> "E2", target |-> "B"],
          [source |-> "A", target |-> "B"]}

AsDict(recs) == [i \in 1..Len(recs) |-> [key |-> ToString(i), val |-> recs[i]]]

CurrentFiles(nodeRecs, maxNodes, edgeRecs, maxEdges) ==
    {[unit_operations |-> AsDict(ns), streams |-> AsDict(es)] :
        ns \in SeqUpTo(nodeRecs, maxNodes), es \in SeqUpTo(edgeRecs, maxEdges)}

\* The legacy shape: top-level nodes / edges arrays, edges carrying edge_id.
LegacyFiles ==
    {[nodes |-> ns, edges |-> es] :
        ns \in SeqUpTo({[unit_operation_id |-> "A"], [unit_operation_id |-> "B"]}, MaxNodes),
        es \in SeqUpTo({[edge_id |-> "E1", source |-> "A", target |-> "B",
                         stream_type |-> "core"]}, MaxEdges)}

AllFiles == CurrentFiles(NodeRecs, MaxNodes, EdgeRecs, MaxEdges) \cup LegacyFiles

\* The files of the editing specification: duplicate ids, a resolvable and a
\* dangling stream.
EditNodeRecs == {FullNode("A"), [unit_operation_id |-> "A"], [unit_operation_id |-> "B"]}

EditEdgeRecs ==
    {[stream_id |-> "E1", source |-> "A", target |-> "B", name |-> "feed",
      stream_type |-> "core"],
     [stream_id |-> "E1", source |-> "A", target |-> "X"]}

EditFiles == CurrentFiles(EditNodeRecs, MaxNodes, EditEdgeRecs, MaxEditEdges)

NoData == <<>>
NoPrior == [set |-> FALSE, nodes |-> <<>>, edges |-> <<>>]
NoForm == [submitted |-> FALSE]
Op(name, id) == [name |-> name, id |-> id]

(***************************************************************************)
(* Actions.  Every action is one run of main().                            *)
(***************************************************************************)
Init ==
    /\ pc = "idle"
    /\ dag_data = NoData
    /\ new_state = EmptyState
    /\ messages = <<>>
    /\ form = NoForm
    /\ op = Op("start", "")
    /\ prior = NoPrior
    /\ ops = 0

\* The run of main() on a freshly uploaded file `data`, lines 49-150.
RunLoad(data) ==
    /\ dag_data' = data
    /\ ops' = 0
    /\ form' = NoForm
    /\ op' = Op("upload", "")
    /\ IF DOMAIN data = {}
       THEN \* `if dag_data:` is false for an empty object: nothing is shown
            /\ pc' = "idle"
            /\ new_state' = EmptyState
            /\ messages' = <<>>
       ELSE IF LoadRaises(NodesData(data), EdgesData(data))
       THEN /\ pc' = "crashed"
            /\ new_state' = EmptyState
            /\ messages' = <<>>
       ELSE /\ pc' = "loaded"
            /\ new_state' = InitialState(data)
            /\ messages' = LoadWarnings(EdgesData(data), NodeIds(NodesData(data)))

\* The user uploads a file.
Upload(files) ==
    /\ pc = "idle"
    /\ dag_data = NoData
    /\ \E data \in files : RunLoad(data)
    /\ prior' = NoPrior

\* json.load raises: load_dag reports the error and returns None, lines 42-44.
UploadUnreadable ==
    /\ pc = "idle"
    /\ dag_data = NoData
    /\ messages = <<>>
    /\ messages' = <<[kind |-> "error", text |-> "Error reading JSON file"]>>
    /\ UNCHANGED <<pc, dag_data, new_state, form, op, prior, ops>>

\* The layout engine of the component places the nodes.
Layout ==
    /\ pc = "loaded"
    /\ \E p \in {3, -3} :
        new_state' = [new_state EXCEPT !.nodes =
            [i \in 1..Len(new_state.nodes) |->
                [new_state.nodes[i] EXCEPT !.position = [x |-> p * i, y |-> p]]]]
    /\ new_state'.nodes # new_state.nodes
    /\ op' = Op("layout", "")
    /\ UNCHANGED <<pc, dag_data, messages, form, prior, ops>>

\* The user downloads updated_dag and uploads it again.
Reupload ==
    /\ pc = "loaded"
    /\ ~ prior.set
    /\ prior' = [set |-> TRUE, nodes |-> new_state.nodes, edges |-> new_state.edges]
    /\ RunLoad(updated_dag)

(***************************************************************************)
(* The node edit form: lines 157-212.                                      *)
(***************************************************************************)
\* text.split(','): the pieces between the commas; ''.split(',') is [''].
RECURSIVE SplitAt(_, _, _)
SplitAt(text, i, piece) ==
    IF i > Len(text) THEN <<piece>>
    ELSE IF text[i] = "," THEN <<piece>> \o SplitAt(text, i + 1, <<>>)
    ELSE SplitAt(text, i + 1, Append(piece, text[i]))

Split(text) == SplitAt(text, 1, <<>>)

\* s.strip(): leading and trailing blanks removed.
RECURSIVE LStrip(_)
LStrip(s) == IF s # <<>> /\ Head(s) = " " THEN LStrip(Tail(s)) ELSE s

RECURSIVE RStrip(_)
RStrip(s) ==
    IF s # <<>> /\ s[Len(s)] = " " THEN RStrip(SubSeq(s, 1, Len(s) - 1)) ELSE s

Strip(s) == RStrip(LStrip(s))

\* [s.strip() for s in text.split(',') if s.strip()], lines 199-200.
StreamList(text) ==
    LET kept == SelectSeq(Split(text), LAMBDA p : Strip(p) # <<>>)
    IN  [i \in 1..Len(kept) |-> Strip(kept[i])]

\* json.loads on a token sequence: white space is skipped; a JSON text is a
\* number, a string or an object of  string : value  members; anything else
\* raises JSONDecodeError.  ParseValue and ParseMembers give the index after
\* what they read, or 0 where json.loads raises.
JsonNumbers == {"1", "2"}
JsonStrings == {"\"a\"", "\"b\"", "\"v\""}

RECURSIVE ParseValue(_, _)
RECURSIVE ParseMembers(_, _)

ParseValue(t, i) ==
    IF i > Len(t) THEN 0
    ELSE IF t[i] \in JsonNumbers \cup JsonStrings THEN i + 1
    ELSE IF t[i] = "{"
         THEN IF i + 1 <= Len(t) /\ t[i + 1] = "}" THEN i + 2 ELSE ParseMembers(t, i + 1)
    ELSE 0

ParseMembers(t, i) ==
    IF i + 2 > Len(t) \/ t[i] \notin JsonStrings \/ t[i + 1] # ":" THEN 0
    ELSE LET j == ParseValue(t, i + 2)
         IN  IF j = 0 \/ j > Len(t) THEN 0
             ELSE IF t[j] = "}" THEN j + 1
             ELSE IF t[j] = "," THEN ParseMembers(t, j + 1)
             ELSE 0

JsonText(t) == ParseValue(t, 1) = Len(t) + 1

JsonLoads(tokens) ==
    LET t == SelectSeq(tokens, LAMBDA c : c # " ")
    IN  IF JsonText(t) THEN [ok |-> TRUE, value |-> t]
        ELSE [ok |-> FALSE, value |-> <<>>]

UpdatedParamsCleared(parameters_str, node_parameters) ==
    IF JsonLoads(parameters_str).ok THEN JsonLoads(parameters_str).value
    ELSE EmptyObject

\* Parse parameters JSON, lines 202-207.
UpdatedParams(parameters_str, node_parameters) ==
    IF JsonLoads(parameters_str).ok THEN JsonLoads(parameters_str).value
    ELSE node_parameters

\* The assignments to selected_node.data, lines 195-209.
EditedData(data, f) ==
    LET node_parameters == Get(data, "parameters", EmptyObject)
        d1 == Updated(data, "content", f.new_name)
        d2 == Updated(d1, "description", f.new_description)
        d3 == Updated(d2, "unit_operation_type", f.new_unit_type)
        d4 == Updated(d3, "order", f.new_order)
        d5 == Updated(d4, "input_streams", StreamList(f.new_input_streams_str))
        d6 == Updated(d5, "output_streams", StreamList(f.new_output_streams_str))
        d7 == Updated(d6, "parameters", UpdatedParams(f.parameters_str, node_parameters))
    IN  Updated(d7, "additional_info", f.new_additional_info)

\* Find the node, lines 161-165: the first node with the selected id, or 0.
SelectedIndex(state) ==
    IF \E i \in 1..Len(state.nodes) : state.nodes[i].id = state.selected_id
    THEN CHOOSE i \in 1..Len(state.nodes) :
            /\ state.nodes[i].id = state.selected_id
            /\ \A j \in 1..(i - 1) : state.nodes[j].id # state.selected_id
    ELSE 0

\* What the user may type into the form.
ParamTexts ==
    {<<"{", "\"b\"", ":", "2", "}">>, <<" ", "{", "}", " ">>, <<"{", "\"b\"">>, <<>>}

Forms ==
    {[submitted             |-> TRUE,
      new_name              |-> "pump",
      new_description       |-> "d2",
      new_unit_type         |-> "t2",
      new_order             |-> "2",
      new_input_streams_str |-> <<" ", "s", "3", " ", ",", ",", " ", ",", "s", "4">>,
      new_output_streams_str |-> <<>>,
      parameters_str        |-> p,
      new_additional_info   |-> "i2"] : p \in ParamTexts}

\* The warnings the mapping of the uploaded file emits in every run.
RunMessages == LoadWarnings(EdgesData(dag_data), NodeIds(NodesData(dag_data)))

ParamError == [kind |-> "error", text |-> "Invalid JSON for parameters. Reverting to old parameters."]

\* "Update Node" is pressed for the selected node, lines 193-212.
UpdateNode ==
    /\ pc = "loaded"
    /\ ops < MaxOps
    /\ new_state.selected_id # ""
    /\ SelectedIndex(new_state) # 0
    /\ \E f \in Forms :
        LET i == SelectedIndex(new_state)
        IN  /\ new_state' = [new_state EXCEPT !.nodes[i].data = EditedData(@, f)]
            /\ messages' = IF JsonLoads(f.parameters_str).ok
                           THEN RunMessages
                           ELSE Append(RunMessages, ParamError)
            /\ form' = f
    /\ op' = Op("update_node", new_state.selected_id)
    /\ ops' = ops + 1
    /\ UNCHANGED <<pc, dag_data, prior>>

(***************************************************************************)
(* The operations of the flow component (streamlit_flow, lines 139-150,    *)
(* with node, edge and pane menus enabled).  Their code is not part of     *)
(* app.py; they follow the Graph Store contract of the specification.      *)
(***************************************************************************)
NodeIdsOf(state) == {state.nodes[i].id : i \in 1..Len(state.nodes)}
EdgeIdsOf(state) == {state.edges[i].id : i \in 1..Len(state.edges)}

\* A node as the component creates it: no data, not classified.
NewNode(id) ==
    [id |-> id, position |-> [x |-> 0, y |-> 0], data |-> <<>>, node_type |-> "default"]

NewEdge(id, s, t) ==
    [id |-> id, source |-> s, target |-> t, label |-> "", animated |-> TRUE]

AddNodeRejected(state, id) == id = "" \/ id \in NodeIdsOf(state)

AddNodeTo(state, id) ==
    IF AddNodeRejected(state, id) THEN state
    ELSE [state EXCEPT !.nodes = Append(@, NewNode(id))]

RemoveNodeFromKeepEdges(state, id) ==
    [state EXCEPT !.nodes = SelectSeq(@, LAMBDA n : n.id # id)]

RemoveNodeFrom(state, id) ==
    [state EXCEPT !.nodes = SelectSeq(@, LAMBDA n : n.id # id),
                  !.edges = SelectSeq(@, LAMBDA e : e.source # id /\ e.target # id)]

AddEdgeRejected(state, edge) ==
    \/ edge.id = ""
    \/ edge.id \in EdgeIdsOf(state)
    \/ edge.source \notin NodeIdsOf(state)
    \/ edge.target \notin NodeIdsOf(state)

AddEdgeTo(state, edge) ==
    IF AddEdgeRejected(state, edge) THEN state
    ELSE [state EXCEPT !.edges = Append(@, edge)]

RemoveEdgeFrom(state, id) ==
    [state EXCEPT !.edges = SelectSeq(@, LAMBDA e : e.id # id)]

NewNodeIds == {"N1", "A"}
RemovableIds == {"A", "B", "N1", "X"}
NewEdges == {NewEdge("E3", "B", "A"), NewEdge("E1", "B", "A"), NewEdge("E3", "A", "X")}
RemovableEdgeIds == {"E1", "E3"}

Rejection(text) == [kind |-> "error", text |-> text]

\* Every operation ends in a run of main() on the same file.
AfterOperation ==
    /\ ops' = ops + 1
    /\ form' = NoForm
    /\ UNCHANGED <<pc, dag_data, prior>>

AddNode ==
    /\ pc = "loaded"
    /\ ops < MaxOps
    /\ \E id \in NewNodeIds :
        /\ new_state' = AddNodeTo(new_state, id)
        /\ op' = Op("add_node", id)
        /\ messages' = IF AddNodeRejected(new_state, id)
                       THEN Append(RunMessages, Rejection("DuplicateIdError"))
                       ELSE RunMessages
    /\ AfterOperation

RemoveNode ==
    /\ pc = "loaded"
    /\ ops < MaxOps
    /\ \E id \in RemovableIds :
        /\ new_state' = RemoveNodeFrom(new_state, id)
        /\ op' = Op("remove_node", id)
    /\ messages' = RunMessages
    /\ AfterOperation

AddEdge ==
    /\ pc = "loaded"
    /\ ops < MaxOps
    /\ \E edge \in NewEdges :
        /\ new_state' = AddEdgeTo(new_state, edge)
        /\ op' = Op("add_edge", edge.id)
        /\ messages' = IF AddEdgeRejected(new_state, edge)
                       THEN Append(RunMessages, Rejection("DuplicateIdError or ReferentialError"))
                       ELSE RunMessages
    /\ AfterOperation

RemoveEdge ==
    /\ pc = "loaded"
    /\ ops < MaxOps
    /\ \E id \in RemovableEdgeIds :
        /\ new_state' = RemoveEdgeFrom(new_state, id)
        /\ op' = Op("remove_edge", id)
    /\ messages' = RunMessages
    /\ AfterOperation

\* The user clicks a node: the component reports it as selected_id.
SelectNode ==
    /\ pc = "loaded"
    /\ \E id \in NodeIdsOf(new_state) :
        /\ id # new_state.selected_id
        /\ new_state' = [new_state EXCEPT !.selected_id = id]
        /\ op' = Op("select", id)
    /\ messages' = RunMessages
    /\ form' = NoForm
    /\ UNCHANGED <<pc, dag_data, prior, ops>>

Next ==
    \/ Upload(EditFiles)
    \/ SelectNode
    \/ UpdateNode
    \/ AddNode
    \/ RemoveNode
    \/ AddEdge
    \/ RemoveEdge

Spec == Init /\ [][Next]_vars

NextLoad ==
    \/ Upload(AllFiles)
    \/ UploadUnreadable
    \/ Layout
    \/ Reupload

SpecLoad == Init /\ [][NextLoad]_vars

(***************************************************************************)
(* Properties.                                                             *)
(***************************************************************************)
Nodes == new_state.nodes
Edges == new_state.edges

\* The classification of section 4.3 of the specification.
Classify(node_id, edges) ==
    LET targeted == \E i \in 1..Len(edges) : edges[i].target = node_id
        sourced  == \E i \in 1..Len(edges) : edges[i].source = node_id
    IN  IF ~ targeted /\ ~ sourced THEN "SOURCE_AND_SINK"
        ELSE IF ~ targeted THEN "SOURCE"
        ELSE IF ~ sourced THEN "SINK"
        ELSE "INTERIOR"

\* The role a flow node type stands for.
Role(node_type) ==
    CASE node_type = "input" -> "SOURCE"
      [] node_type = "output" -> "SINK"
      [] OTHER -> "INTERIOR"

RolesAgree(state) ==
    \A i \in 1..Len(state.nodes) :
        Role(state.nodes[i].node_type) = Classify(state.nodes[i].id, state.edges)

\* The records of the uploaded file that the mapping leaves out.
DroppedNodeRecords ==
    {i \in 1..Len(NodesData(dag_data)) : ~ HasId(NodesData(dag_data)[i])}

DroppedEdgeRecords ==
    {i \in 1..Len(EdgesData(dag_data)) :
        \/ Get(EdgesData(dag_data)[i], "source", "") \notin NodeIds(NodesData(dag_data))
        \/ Get(EdgesData(dag_data)[i], "target", "") \notin NodeIds(NodesData(dag_data))}

Named(i) ==
    \E m \in 1..Len(messages) :
        /\ messages[m].kind = "warning"
        /\ messages[m].stream_id = Get(EdgesData(dag_data)[i], "stream_id", "")

\* C1: in every state reached by loading a file and applying user
\* operations, and in the file exported from that state, the source and the
\* target of every edge are ids of nodes of that same state.
ReferentialIntegrity ==
    pc = "loaded" =>
        /\ \A i \in 1..Len(Edges) :
              /\ Edges[i].source \in NodeIdsOf(new_state)
              /\ Edges[i].target \in NodeIdsOf(new_state)
        /\ \A j \in 1..Len(updated_dag.streams) :
              /\ updated_dag.streams[j].val.source \in Keys(updated_dag.unit_operations)
              /\ updated_dag.streams[j].val.target \in Keys(updated_dag.unit_operations)

\* C1 witness: a file with a dangling stream was loaded, the user has edited
\* the graph, and the graph has an edge again.
ReferentialIntegrityWitness ==
    /\ pc = "loaded"
    /\ ops = MaxOps
    /\ DroppedEdgeRecords # {}
    /\ Len(Edges) > 0
    /\ Len(updated_dag.streams) > 0

\* The fields of a node and of an edge that the round trip is to preserve.
NodeFields(n) == [id |-> n.id, data |-> n.data, position |-> n.position]
EdgeFields(e) ==
    [id |-> e.id, source |-> e.source, target |-> e.target, name |-> e.label,
     streamType |-> IF e.animated THEN "core" ELSE "other"]

\* C2: loading the file exported from a loaded graph yields a graph with the
\* same node ids, the same edge ids and the same field values.
RoundTrip ==
    (prior.set /\ op.name = "upload") =>
        /\ pc = "loaded"
        /\ NodeIdsOf(new_state) = {prior.nodes[i].id : i \in 1..Len(prior.nodes)}
        /\ EdgeIdsOf(new_state) = {prior.edges[i].id : i \in 1..Len(prior.edges)}
        /\ {NodeFields(Nodes[i]) : i \in 1..Len(Nodes)}
              = {NodeFields(prior.nodes[i]) : i \in 1..Len(prior.nodes)}
        /\ {EdgeFields(Edges[i]) : i \in 1..Len(Edges)}
              = {EdgeFields(prior.edges[i]) : i \in 1..Len(prior.edges)}

\* C3: the role assigned to every node of the loaded graph is the
\* classification of the node over the edges of the graph.
ClassificationAtLoad ==
    (pc = "loaded" /\ op.name = "upload") => RolesAgree(new_state)

\* C4: removing node n removes exactly the edges whose source or target is
\* n and no node but n; removing an absent id changes nothing.
CascadeDelete ==
    [][(op'.name = "remove_node" /\ ops' = ops + 1) =>
        LET n == op'.id
        IN  /\ NodeIdsOf(new_state') = NodeIdsOf(new_state) \ {n}
            /\ Range(new_state'.nodes) = {x \in Range(Nodes) : x.id # n}
            /\ Range(new_state'.edges)
                  = {e \in Range(Edges) : e.source # n /\ e.target # n}
            /\ (n \notin NodeIdsOf(new_state) => new_state' = new_state)]_vars

\* C4 witness: the first operation after the load removed a node of the
\* graph, and the edge the file gave that node went with it.
CascadeDeleteWitness ==
    /\ pc = "loaded"
    /\ ops = 1
    /\ op.name = "remove_node"
    /\ op.id \in NodeIdsOf(InitialState(dag_data))
    /\ Len(InitialState(dag_data).edges) > 0
    /\ Len(Nodes) > 0
    /\ Len(Edges) = 0

\* C5: no node of the graph has an empty id and no two nodes share an id.
UniqueNodeIds ==
    pc = "loaded" =>
        /\ \A i \in 1..Len(Nodes) : Nodes[i].id # ""
        /\ \A i, j \in 1..Len(Nodes) : i # j => Nodes[i].id # Nodes[j].id

\* C6: loading a file with a stream whose source or target is no loaded unit
\* operation yields a graph without that stream, with every unit operation
\* that has an id and every stream whose endpoints resolve, and a warning
\* that names the dropped stream.
DanglingEdgeDropped ==
    ("streams" \in DOMAIN dag_data /\ op.name = "upload" /\ DroppedEdgeRecords # {}) =>
        /\ pc = "loaded"
        /\ Len(Nodes) = Len(NodesData(dag_data)) - Cardinality(DroppedNodeRecords)
        /\ Len(Edges) = Len(EdgesData(dag_data)) - Cardinality(DroppedEdgeRecords)
        /\ \A i \in 1..Len(Edges) :
              /\ Edges[i].source \in NodeIds(NodesData(dag_data))
              /\ Edges[i].target \in NodeIds(NodesData(dag_data))
        /\ \A i \in DroppedEdgeRecords : Named(i)

LegacyShapeAccepted ==
    ("nodes" \in DOMAIN dag_data /\ op.name = "upload") =>
        /\ pc = "loaded"
        /\ Len(Nodes) = Len(dag_data.nodes)
        /\ Len(Edges) =
              Cardinality({i \in 1..Len(dag_data.edges) :
                  EdgeKnown(dag_data.edges[i], NodeIds(dag_data.nodes))})

StructuralEdits == {"add_edge", "remove_edge", "remove_node"}

NoneIsolated(state) ==
    \A i \in 1..Len(state.nodes) :
        Classify(state.nodes[i].id, state.edges) # "SOURCE_AND_SINK"

\* C9: after an edge is added or removed or a node is removed, the role of
\* every remaining node is the classification over the edges of the new
\* state.  Stated for the steps that start where the roles agree with the
\* edges and end where no node is isolated, so that only a role the edit
\* has made out of date is counted.
ClassificationFresh ==
    [][(/\ op'.name \in StructuralEdits
        /\ ops' = ops + 1
        /\ RolesAgree(new_state)
        /\ NoneIsolated(new_state'))
          => RolesAgree(new_state')]_vars

\* C10: every node record and edge record of the file that is absent from
\* the loaded graph has a diagnostic: there are at least as many diagnostics
\* as dropped records, and every dropped edge is named.
NoSilentLoss ==
    (pc = "loaded" /\ "unit_operations" \in DOMAIN dag_data) =>
        /\ Len(messages) >= Cardinality(DroppedNodeRecords) + Cardinality(DroppedEdgeRecords)
        /\ \A i \in DroppedEdgeRecords : Named(i)

====
